---- MODULE Spec2Model ----
(***************************************************************************)
(* A model of Mvar<T> (src/src/lib.rs): a Mutex<Option<T>> with two        *)
(* Condvars, `full` and `empty`, shared by preemptible threads.  Every     *)
(* thread runs a fixed program, a sequence of calls on the one shared      *)
(* Mvar.  A call is split where the code can be preempted: acquiring the   *)
(* mutex, the code run while the guard is held, and the wait on a          *)
(* Condvar (which releases the mutex, suspends, and re-acquires it).       *)
(***************************************************************************)
EXTENDS Integers, Sequences, FiniteSets, TLC

\* ------------------------------------------------------------------ bounds
NThreads == 3
MaxVal == 2

Threads == 1..NThreads
Values == 1..MaxVal

\* ----------------------------------------------------------- Option<T>
None == <<>>
Some(v) == <<v>>
IsNone(o) == o = None
IsSome(o) == o # None
Unwrap(o) == o[1]

\* The () of Ok(()).
Unit == "unit"

\* -------------------------------------------------------------- calls
\* A call is the method's name and its argument (0 for a method of &self
\* alone).
OpNames == <<"is_empty", "take", "try_take", "read", "try_read", "put", "try_put", "swap">>
Call(name, arg) == [op |-> name, arg |-> arg]
Nullary == {Call(n, 0) : n \in {"is_empty", "take", "try_take", "read", "try_read"}}
Puts == {Call("put", v) : v \in Values}
Unary == {Call(n, v) : n \in {"put", "try_put", "swap"}, v \in Values}
Ops == Nullary \cup Unary

VARIABLES
    value,    \* the Option<T> inside the Mutex
    owner,    \* the threads holding a MutexGuard of `value`: {} or {t}
    full,     \* the threads suspended in full.wait
    empty,    \* the threads suspended in empty.wait
    pc,       \* where each thread is: "ready", "held", "swapping", "wait", "woken"
    prog,     \* each thread's program: the calls it makes, in order
    ip,       \* the index in prog of each thread's current call
    ret,      \* the values each thread's completed calls returned, in order
    old,      \* swap's local old_value
    start,    \* the Option the constructor was given
    poisoned, \* whether the Mutex is poisoned
    errs,     \* per thread, the indexes of its calls that returned Err
    waits,    \* per thread, the indexes of its calls that have suspended
    notified  \* how many notify_one calls each Condvar has received

vars == <<value, owner, full, empty, pc, prog, ip, ret, old, start, poisoned, errs,
          waits, notified>>

Finished(t) == ip[t] > Len(prog[t])
Cur(t) == prog[t][ip[t]]
Running(t, name) == pc[t] = "held" /\ Cur(t).op = name

\* ------------------------------------------------------------ programs
\* Threads are interchangeable, so where several threads draw their programs
\* from the same set only the assignments in rank order are started.
Rank(p) ==
    IF p = <<>> THEN 0
    ELSE (CHOOSE i \in DOMAIN OpNames : OpNames[i] = p[1].op) * (MaxVal + 1) + p[1].arg
Ordered(f, S) == \A t \in S : \A u \in S : t < u => Rank(f[t]) <= Rank(f[u])

Idle == <<>>
OneCall == {Idle} \cup {<<o>> : o \in Ops}
TwoCalls(A, B) == {<<a, b>> : a \in A, b \in B}

\* Every thread makes at most one call, all of them concurrently.
Concurrent == {f \in [Threads -> OneCall] : Ordered(f, Threads)}

\* The programs of threads 1, 2, 3 given, every other thread idle.
Programs(p1, p2, p3) ==
    [t \in Threads |-> IF t = 1 THEN p1 ELSE IF t = 2 THEN p2 ELSE IF t = 3 THEN p3 ELSE Idle]

\* One thread alone makes two calls in a row.
Solo == {Programs(p, Idle, Idle) : p \in TwoCalls(Ops, Ops)}

\* A producer of one or two values beside a thread making two calls that
\* take no argument (the tests put_once and put_twice are of this shape).
Duet == {Programs(p, q, Idle) : p \in {<<o>> : o \in Puts} \cup TwoCalls(Puts, Puts),
                                q \in TwoCalls(Nullary, Nullary)}

\* A producer of two values beside two threads making one call each.
Trio == {f \in {Programs(p, q[1], q[2]) : p \in TwoCalls(Puts, Puts),
                                          q \in (OneCall \ {Idle}) \X (OneCall \ {Idle})} :
            Ordered(f, {2, 3})}

Scenarios == Concurrent \cup Solo \cup Duet \cup Trio

\* Mvar::empty() or Mvar::new(v), then the threads are spawned.
Init ==
    /\ start \in {None} \cup {Some(v) : v \in Values}
    /\ value = start
    /\ owner = {}
    /\ full = {}
    /\ empty = {}
    /\ prog \in Scenarios
    /\ pc = [t \in Threads |-> "ready"]
    /\ ip = [t \in Threads |-> 1]
    /\ ret = [t \in Threads |-> <<>>]
    /\ old = [t \in Threads |-> None]
    /\ poisoned = FALSE
    /\ errs = [t \in Threads |-> {}]
    /\ waits = [t \in Threads |-> {}]
    /\ notified = [full |-> 0, empty |-> 0]

\* ------------------------------------------------------- the primitives
\* notify_all in notify_one's place: every suspended thread is woken.
NotifyAll(cv) == {cv}

\* Condvar::notify_one: wakes one of the threads suspended on the Condvar,
\* whichever the host picks, or nobody when none is suspended.
NotifyOne(cv) == IF cv = {} THEN {{}} ELSE {{w} : w \in cv}

\* lock() on a poisoned Mutex taken for a lock() that succeeds.
LockIgnoresPoison(t) ==
    /\ pc[t] = "ready"
    /\ ~Finished(t)
    /\ owner = {}
    /\ owner' = {t}
    /\ pc' = [pc EXCEPT ![t] = "held"]
    /\ UNCHANGED <<value, full, empty, prog, ip, ret, old, start, poisoned, errs, waits, notified>>

\* Mutex::lock at the start of a call.
Lock(t) ==
    /\ pc[t] = "ready"
    /\ ~Finished(t)
    /\ owner = {}
    /\ ~poisoned
    /\ owner' = {t}
    /\ pc' = [pc EXCEPT ![t] = "held"]
    /\ UNCHANGED <<value, full, empty, prog, ip, ret, old, start, poisoned, errs, waits, notified>>

\* The second half of Condvar::wait: a woken thread re-acquires the mutex
\* and goes round its loop again.
Relock(t) ==
    /\ pc[t] = "woken"
    /\ owner = {}
    /\ ~poisoned
    /\ owner' = {t}
    /\ pc' = [pc EXCEPT ![t] = "held"]
    /\ UNCHANGED <<value, full, empty, prog, ip, ret, old, start, poisoned, errs, waits, notified>>

\* Condvar::wait may return without any notification (a spurious wake-up).
SpuriousWake(t) ==
    /\ pc[t] = "wait"
    /\ pc' = [pc EXCEPT ![t] = "woken"]
    /\ full' = full \ {t}
    /\ empty' = empty \ {t}
    /\ UNCHANGED <<value, owner, prog, ip, ret, old, start, poisoned, errs, waits, notified>>

\* The return of a call: the guard is dropped, the result handed back; the
\* threads in `woken` are those the call's notify_one woke.
Return(t, r, woken) ==
    /\ owner' = {}
    /\ pc' = [s \in Threads |-> IF s \in woken THEN "woken"
                                ELSE IF s = t THEN "ready" ELSE pc[s]]
    /\ ip' = [ip EXCEPT ![t] = @ + 1]
    /\ ret' = [ret EXCEPT ![t] = Append(@, r)]
    /\ old' = [old EXCEPT ![t] = None]
    /\ UNCHANGED <<prog, start, poisoned, errs, waits>>

\* The first half of Condvar::wait: the mutex is released and the thread
\* suspended on the Condvar, in one atomic step.
\* A wait that suspends the thread with the mutex still locked.
WaitKeepsLock(t, cv) ==
    /\ pc' = [pc EXCEPT ![t] = "wait"]
    /\ full' = IF cv = "full" THEN full \cup {t} ELSE full
    /\ empty' = IF cv = "empty" THEN empty \cup {t} ELSE empty
    /\ waits' = [waits EXCEPT ![t] = @ \cup {ip[t]}]
    /\ UNCHANGED <<value, owner, prog, ip, ret, old, start, poisoned, errs, notified>>

Wait(t, cv) ==
    /\ owner' = {}
    /\ pc' = [pc EXCEPT ![t] = "wait"]
    /\ full' = IF cv = "full" THEN full \cup {t} ELSE full
    /\ empty' = IF cv = "empty" THEN empty \cup {t} ELSE empty
    /\ waits' = [waits EXCEPT ![t] = @ \cup {ip[t]}]
    /\ UNCHANGED <<value, prog, ip, ret, old, start, poisoned, errs, notified>>

\* ----------------------------------------------------------- the calls
IsEmpty(t) ==
    /\ Running(t, "is_empty")
    /\ Return(t, IsNone(value), {})
    /\ UNCHANGED <<value, full, empty, notified>>

\* take that copies the value out and leaves it in the cell.
TakeKeeps(t) ==
    /\ Running(t, "take")
    /\ IF IsSome(value)
       THEN \E w \in NotifyOne(empty) :
               /\ empty' = empty \ w
               /\ notified' = [notified EXCEPT !.empty = @ + 1]
               /\ Return(t, Unwrap(value), w)
               /\ UNCHANGED <<value, full>>
       ELSE Wait(t, "full")

\* take that extracts the value without calling self.empty.notify_one().
TakeForgetsNotify(t) ==
    /\ Running(t, "take")
    /\ IF IsSome(value)
       THEN /\ value' = None
            /\ Return(t, Unwrap(value), {})
            /\ UNCHANGED <<full, empty, notified>>
       ELSE Wait(t, "full")

Take(t) ==
    /\ Running(t, "take")
    /\ IF IsSome(value)
       THEN \E w \in NotifyOne(empty) :
               /\ value' = None
               /\ empty' = empty \ w
               /\ notified' = [notified EXCEPT !.empty = @ + 1]
               /\ Return(t, Unwrap(value), w)
               /\ UNCHANGED full
       ELSE Wait(t, "full")

\* try_take that calls self.empty.notify_one() whether or not it got a value.
TryTakeAlwaysNotifies(t) ==
    /\ Running(t, "try_take")
    /\ \E w \in NotifyOne(empty) :
           /\ value' = None
           /\ empty' = empty \ w
           /\ notified' = [notified EXCEPT !.empty = @ + 1]
           /\ Return(t, value, w)
           /\ UNCHANGED full

TryTake(t) ==
    /\ Running(t, "try_take")
    /\ IF IsSome(value)
       THEN \E w \in NotifyOne(empty) :
               /\ value' = None
               /\ empty' = empty \ w
               /\ notified' = [notified EXCEPT !.empty = @ + 1]
               /\ Return(t, value, w)
               /\ UNCHANGED full
       ELSE /\ Return(t, None, {})
            /\ UNCHANGED <<value, full, empty, notified>>

\* put without its self.full.notify_one().
PutForgetsNotify(t) ==
    /\ Running(t, "put")
    /\ IF IsNone(value)
       THEN /\ value' = Some(Cur(t).arg)
            /\ Return(t, Unit, {})
            /\ UNCHANGED <<full, empty, notified>>
       ELSE Wait(t, "empty")

\* put without its guard.is_none() check: it stores over a held value.
PutOverwrites(t) ==
    /\ Running(t, "put")
    /\ \E w \in NotifyOne(full) :
           /\ value' = Some(Cur(t).arg)
           /\ full' = full \ w
           /\ notified' = [notified EXCEPT !.full = @ + 1]
           /\ Return(t, Unit, w)
           /\ UNCHANGED empty

Put(t) ==
    /\ Running(t, "put")
    /\ IF IsNone(value)
       THEN \E w \in NotifyOne(full) :
               /\ value' = Some(Cur(t).arg)
               /\ full' = full \ w
               /\ notified' = [notified EXCEPT !.full = @ + 1]
               /\ Return(t, Unit, w)
               /\ UNCHANGED empty
       ELSE Wait(t, "empty")

\* try_put without its guard.is_some() check: it always stores.
TryPutOverwrites(t) ==
    /\ Running(t, "try_put")
    /\ \E w \in NotifyOne(full) :
           /\ value' = Some(Cur(t).arg)
           /\ full' = full \ w
           /\ notified' = [notified EXCEPT !.full = @ + 1]
           /\ Return(t, TRUE, w)
           /\ UNCHANGED empty

\* try_put that calls self.full.notify_one() before looking at the guard.
TryPutNotifiesFirst(t) ==
    /\ Running(t, "try_put")
    /\ \E w \in NotifyOne(full) :
           /\ full' = full \ w
           /\ notified' = [notified EXCEPT !.full = @ + 1]
           /\ UNCHANGED empty
           /\ IF IsSome(value)
              THEN Return(t, FALSE, w) /\ UNCHANGED value
              ELSE Return(t, TRUE, w) /\ value' = Some(Cur(t).arg)

TryPut(t) ==
    /\ Running(t, "try_put")
    /\ IF IsSome(value)
       THEN /\ Return(t, FALSE, {})
            /\ UNCHANGED <<value, full, empty, notified>>
       ELSE \E w \in NotifyOne(full) :
               /\ value' = Some(Cur(t).arg)
               /\ full' = full \ w
               /\ notified' = [notified EXCEPT !.full = @ + 1]
               /\ Return(t, TRUE, w)
               /\ UNCHANGED empty

\* swap as a take followed by a put: the guard is dropped once the old
\* value is out, and the new value stored without it.
SwapTakeUnlocks(t) ==
    /\ Running(t, "swap")
    /\ IF IsSome(value)
       THEN /\ value' = None
            /\ old' = [old EXCEPT ![t] = value]
            /\ pc' = [pc EXCEPT ![t] = "swapping"]
            /\ owner' = {}
            /\ UNCHANGED <<full, empty, prog, ip, ret, start, poisoned, errs, waits, notified>>
       ELSE Wait(t, "empty")

\* swap's loop: guard.take() empties the Option and, when it held a value,
\* breaks with it, the guard still held; otherwise the thread waits.
SwapTake(t) ==
    /\ Running(t, "swap")
    /\ IF IsSome(value)
       THEN /\ value' = None
            /\ old' = [old EXCEPT ![t] = value]
            /\ pc' = [pc EXCEPT ![t] = "swapping"]
            /\ UNCHANGED <<owner, full, empty, prog, ip, ret, start, poisoned, errs, waits, notified>>
       ELSE Wait(t, "empty")

\* swap after its loop: *guard = Some(value); Ok(old_value).
\* swap that calls self.full.notify_one() after its store, as put does.
SwapStoreNotifies(t) ==
    /\ pc[t] = "swapping"
    /\ \E w \in NotifyOne(full) :
           /\ value' = Some(Cur(t).arg)
           /\ full' = full \ w
           /\ notified' = [notified EXCEPT !.full = @ + 1]
           /\ Return(t, Unwrap(old[t]), w)
           /\ UNCHANGED empty

SwapStore(t) ==
    /\ pc[t] = "swapping"
    /\ value' = Some(Cur(t).arg)
    /\ Return(t, Unwrap(old[t]), {})
    /\ UNCHANGED <<full, empty, notified>>

\* read written with guard.take() for guard.clone(): it empties the cell.
ReadConsumes(t) ==
    /\ Running(t, "read")
    /\ IF IsSome(value)
       THEN /\ value' = None
            /\ Return(t, Unwrap(value), {})
            /\ UNCHANGED <<full, empty, notified>>
       ELSE Wait(t, "full")

Read(t) ==
    /\ Running(t, "read")
    /\ IF IsSome(value)
       THEN /\ Return(t, Unwrap(value), {})
            /\ UNCHANGED <<value, full, empty, notified>>
       ELSE Wait(t, "full")

TryRead(t) ==
    /\ Running(t, "try_read")
    /\ Return(t, value, {})
    /\ UNCHANGED <<value, full, empty, notified>>

Step(t) ==
    \/ Lock(t)
    \/ Relock(t)
    \/ IsEmpty(t)
    \/ Take(t)
    \/ TryTake(t)
    \/ Put(t)
    \/ TryPut(t)
    \/ SwapTake(t)
    \/ SwapStore(t)
    \/ Read(t)
    \/ TryRead(t)

Next == \E t \in Threads : Step(t) \/ SpuriousWake(t)

Spec == Init /\ [][Next]_vars

\* ------------------------------------------------------------ poisoning
\* The Err(PoisonError) a call returns.
Poisoned == "poisoned"

\* T::clone panics in guard.clone() (read, try_read) while the guard is
\* held: the thread unwinds, the guard is dropped and the Mutex poisoned.
ClonePanics(t) ==
    /\ Running(t, "read") \/ Running(t, "try_read")
    /\ IsSome(value)
    /\ poisoned' = TRUE
    /\ owner' = {}
    /\ pc' = [pc EXCEPT ![t] = "panicked"]
    /\ UNCHANGED <<value, full, empty, prog, ip, ret, old, start, errs, waits, notified>>

\* The call returns Err: `?` hands the PoisonError to the caller, and with
\* it the guard it carries.
Fail(t) ==
    /\ owner' = {t}
    /\ pc' = [pc EXCEPT ![t] = "failed"]
    /\ ret' = [ret EXCEPT ![t] = Append(@, Poisoned)]
    /\ errs' = [errs EXCEPT ![t] = @ \cup {ip[t]}]
    /\ ip' = [ip EXCEPT ![t] = @ + 1]
    /\ UNCHANGED <<value, full, empty, prog, old, start, poisoned, waits, notified>>

\* self.value.lock()? on a poisoned Mutex.
LockPoisoned(t) ==
    /\ pc[t] = "ready"
    /\ ~Finished(t)
    /\ owner = {}
    /\ poisoned
    /\ Fail(t)

\* self.full.wait(guard)? or self.empty.wait(guard)? re-acquiring a
\* poisoned Mutex.
RelockPoisoned(t) ==
    /\ pc[t] = "woken"
    /\ owner = {}
    /\ poisoned
    /\ Fail(t)

\* The caller drops the PoisonError, and the guard in it.
DropError(t) ==
    /\ pc[t] = "failed"
    /\ owner' = {}
    /\ pc' = [pc EXCEPT ![t] = "ready"]
    /\ UNCHANGED <<value, full, empty, prog, ip, ret, old, start, poisoned, errs, waits, notified>>

PoisonNext ==
    \/ Next
    \/ \E t \in Threads : ClonePanics(t) \/ LockPoisoned(t) \/ RelockPoisoned(t) \/ DropError(t)

\* The Mvar with a T whose clone can panic.
PoisonSpec == Init /\ [][PoisonNext]_vars

\* The threads are scheduled preemptively and fairly: a thread that can run
\* does run, and a thread contending for the mutex gets it if it is free
\* again and again.  No fairness is given to spurious wake-ups: the host
\* may never produce one.
Fairness ==
    \A t \in Threads :
        /\ WF_vars(Step(t))
        /\ SF_vars(Lock(t) \/ Relock(t))

FairSpec == Init /\ [][Next]_vars /\ Fairness

\* ------------------------------------------------------------- helpers
Busy == {t \in Threads : prog[t] # Idle}
AllFinished == \A t \in Threads : Finished(t)
Suspended(t) == pc[t] = "wait"

\* ------------------------------------------------------------------ C1
\* Only try_put calls, two or more of them, race on a cell built Empty.
RaceTryPut ==
    /\ start = None
    /\ Cardinality(Busy) >= 2
    /\ \A t \in Busy : Len(prog[t]) = 1 /\ prog[t][1].op = "try_put"

Winners == {t \in Busy : ret[t] = <<TRUE>>}

\* C1: when only try_put calls race on an Empty cell, at most one has
\* returned true at any time, a call that has returned false was preceded by
\* the one that returned true, the cell holds nothing until a call wins and
\* the winner's value from then on; so when all have returned exactly one
\* has returned true and the cell holds its value.
C1_TryPutRace ==
    RaceTryPut =>
        /\ Cardinality(Winners) <= 1
        /\ (Winners = {}) => (value = None /\ \A t \in Busy : ret[t] = <<>>)
        /\ \A t \in Winners : value = Some(prog[t][1].arg)
        /\ \A t \in Busy \ Winners : ret[t] \in {<<>>, <<FALSE>>}
        /\ AllFinished => Cardinality(Winners) = 1

\* All racing calls have returned; a loser's value differs from the winner's.
C1_Witness ==
    /\ RaceTryPut
    /\ AllFinished
    /\ \E t \in Winners : \E u \in Busy :
           ret[u] = <<FALSE>> /\ prog[u][1].arg # prog[t][1].arg


\* ------------------------------------------------------------------ C2
Swapping(s) == pc[s] = "swapping"

\* What a step leaves alone of a thread that does not move in it.
Untouched(t) ==
    /\ pc'[t] = pc[t]
    /\ ip'[t] = ip[t]
    /\ ret'[t] = ret[t]
    /\ waits'[t] = waits[t]

\* The only thing a thread other than the swapping one can do: be woken
\* from a wait without any notification, and then contend for the mutex.
OnlyWoken(t) ==
    /\ pc[t] \in {"ready", "wait", "woken"}
    /\ pc'[t] \in {pc[t], "woken"}
    /\ ip'[t] = ip[t]
    /\ ret'[t] = ret[t]
    /\ waits'[t] = waits[t]

\* C2: while a swap is between removing the old value and storing the new
\* one it holds the mutex, and in every step taken meanwhile either the
\* swap stores its value and returns the old one, or the cell is untouched;
\* no other thread holds the guard, returns a result, starts a wait or
\* stores: the emptied cell is seen by nobody.
C2_SwapNeverExposesEmpty ==
    [][\A s \in Threads : Swapping(s) =>
          /\ owner = {s}
          /\ value = None
          /\ \A t \in Threads \ {s} : OnlyWoken(t)
          /\ \/ Swapping(s)' /\ value' = value /\ owner' = owner
             \/ /\ Finished(s)' \/ pc'[s] = "ready"
                /\ value' = Some(Cur(s).arg)
                /\ ret'[s] = Append(ret[s], Unwrap(old[s]))
                /\ \A t \in Threads \ {s} : Untouched(t)]_vars

\* A swap has removed the old value while another thread is about to call
\* is_empty, one is suspended in put and the cell was built Full.
C2_Witness ==
    \E s \in Threads : \E t \in Threads \ {s} : \E u \in Threads \ {s, t} :
        /\ Swapping(s)
        /\ start # None
        /\ pc[t] = "ready" /\ ~Finished(t) /\ Cur(t).op = "is_empty"
        /\ Suspended(u) /\ Cur(u).op = "put"

\* ------------------------------------------------------------------ C3
\* Thread a takes and thread b swaps on a cell built Empty, beside a
\* producer of two values.
TakeAndSwap(a, b) ==
    /\ start = None
    /\ Len(prog[a]) = 1 /\ prog[a][1].op = "take"
    /\ Len(prog[b]) = 1 /\ prog[b][1].op = "swap"
    /\ prog \in Trio

\* C3: once thread 2 is suspended in take() on the Empty cell while thread
\* 3's swap is under way (Trio starts them so, beside producer 1), both
\* calls eventually return.
C3_TakeAndSwapReturn ==
    (TakeAndSwap(2, 3) /\ Suspended(2) /\ value = None /\ ~Finished(3))
        ~> (Finished(2) /\ Finished(3))

\* ------------------------------------------------------------------ C4
Takers == {t \in Threads : Len(prog[t]) = 1 /\ prog[t][1].op = "take"}
Putters == {t \in Threads : Len(prog[t]) = 1 /\ prog[t][1].op = "put"}
Returned(S) == {t \in S : Finished(t)}
Quiescent == \A t \in Threads : Finished(t) \/ Suspended(t)

\* One put beside two or more takes, and nothing else, on a cell built Empty.
OnePutManyTakes ==
    /\ start = None
    /\ Cardinality(Putters) = 1
    /\ Cardinality(Takers) >= 2
    /\ Takers \cup Putters = Threads

\* C4: with every other thread suspended in take() on the Empty cell, the
\* step in which the one put(v) stores v wakes exactly one of them and
\* leaves the rest suspended; at most one take ever returns, it returns v
\* after the put and leaves the cell Empty; and when nothing can run any
\* more exactly one take has returned and the others are suspended on full.
C4_PutWakesExactlyOne ==
    /\ [](OnePutManyTakes =>
            /\ Cardinality(Returned(Takers)) <= 1
            /\ \A t \in Returned(Takers) :
                   /\ \A p \in Putters : Finished(p) /\ ret[t] = <<prog[p][1].arg>>
                   /\ value = None
            /\ (Quiescent /\ Returned(Putters) # {}) =>
                   /\ Cardinality(Returned(Takers)) = 1
                   /\ Takers \ Returned(Takers) \subseteq full)
    /\ [][\A p \in Threads :
            (OnePutManyTakes /\ p \in Putters /\ Takers \subseteq full
                /\ Running(p, "put") /\ pc'[p] # pc[p]) =>
                    /\ value' = Some(prog[p][1].arg)
                    /\ Finished(p)'
                    /\ \E w \in Takers :
                           /\ pc'[w] = "woken"
                           /\ full' = Takers \ {w}
                           /\ \A t \in Takers \ {w} : Suspended(t)']_vars

\* The put has returned, one take has returned after suspending, and every
\* other take is suspended on full with the cell Empty.
C4_Witness ==
    /\ OnePutManyTakes
    /\ Quiescent
    /\ Returned(Putters) # {}
    /\ \E t \in Takers :
           /\ Finished(t) /\ 1 \in waits[t]
           /\ full = Takers \ {t}
           /\ \A u \in full : 1 \in waits[u]
    /\ value = None
    /\ notified = [full |-> 1, empty |-> 1]

\* ------------------------------------------------------------------ C5
\* tests::put_once: on a cell built Empty one thread calls put(v) while
\* another calls take() and then is_empty().
PutOnce(p, c) ==
    /\ start = None
    /\ Len(prog[p]) = 1 /\ prog[p][1].op = "put"
    /\ Len(prog[c]) = 2 /\ prog[c][1].op = "take" /\ prog[c][2].op = "is_empty"
    /\ Busy = {p, c}

PutOnceDone(p, c) ==
    PutOnce(p, c) /\ Finished(c) /\ ret[c] = <<prog[p][1].arg, TRUE>>

\* C5: with thread 1 the producer and thread 2 the consumer (as Duet starts
\* them), under fair scheduling the take() eventually returns the value put
\* and the is_empty() after it returns true, whether or not the take
\* suspended first.
C5_PutOnce == PutOnce(1, 2) => <>PutOnceDone(1, 2)

\* Both calls have returned and the take had suspended before the put ran.
C5_Witness ==
    /\ PutOnceDone(1, 2)
    /\ AllFinished
    /\ 1 \in waits[2]

\* ------------------------------------------------------------------ C6
SuspendedPut(t) == Suspended(t) /\ Cur(t).op = "put"

\* The put calls that suspended and have returned since.
ReleasedPuts ==
    {c \in Threads \X {1, 2} :
        c[2] \in waits[c[1]] /\ prog[c[1]][c[2]].op = "put" /\ ip[c[1]] > c[2]}

\* The calls a thread has not started yet.
Ahead(t) == {i \in DOMAIN prog[t] : i > ip[t] \/ (i = ip[t] /\ pc[t] = "ready")}

\* No thread is about to fill the cell ahead of the suspended puts.
NoOtherProducer ==
    \A t \in Threads : \A i \in Ahead(t) : prog[t][i].op \notin {"put", "try_put"}

\* The cell has been emptied while a put is suspended.
EmptiedUnderPut ==
    /\ value = None
    /\ owner = {}
    /\ \E t \in Threads : SuspendedPut(t)

\* C6: whenever the cell is Empty while some thread is suspended in put
\* (and no other producer is about to fill it), one more suspended put
\* eventually stores its value and returns.
C6_SuspendedPutCompletes ==
    \A n \in 0..(2 * NThreads) :
        (EmptiedUnderPut /\ NoOtherProducer /\ Cardinality(ReleasedPuts) = n)
            ~> (Cardinality(ReleasedPuts) > n)

\* ------------------------------------------------------------------ C7
\* tests::put_twice: on a cell built Empty one thread calls put(x) and then
\* put(y) while another calls take() twice.
PutTwice(p, c) ==
    /\ start = None
    /\ Len(prog[p]) = 2 /\ prog[p][1].op = "put" /\ prog[p][2].op = "put"
    /\ Len(prog[c]) = 2 /\ prog[c][1].op = "take" /\ prog[c][2].op = "take"
    /\ Busy = {p, c}

\* The n-th value producer p puts.
Taken(p, n) == prog[p][n].arg

PutTwiceDone(p, c) ==
    /\ PutTwice(p, c)
    /\ AllFinished
    /\ ret[c] = <<prog[p][1].arg, prog[p][2].arg>>
    /\ ret[p] = <<Unit, Unit>>

\* C7: with thread 1 the producer and thread 2 the consumer (as Duet starts
\* them), at every moment the values taken so far are the values put first, in
\* put order, and under fair scheduling both threads terminate, the takes
\* having returned x and then y.
C7_PutTwice ==
    /\ [](PutTwice(1, 2) =>
            /\ Len(ret[2]) <= Len(ret[1])
            /\ \A n \in DOMAIN ret[2] : ret[2][n] = Taken(1, n))
    /\ PutTwice(1, 2) => <>PutTwiceDone(1, 2)

\* Both threads have terminated, the values put were different, the second
\* put had to wait for the first take and the second take for the second put.
C7_Witness ==
    /\ PutTwiceDone(1, 2)
    /\ prog[1][1].arg # prog[1][2].arg
    /\ waits[1] = {2}
    /\ waits[2] = {2}

\* ------------------------------------------------------------------ C8
\* Thread t alone calls put(v) and then take() on a cell built Empty.
RoundTrip(t) ==
    /\ start = None
    /\ Busy = {t}
    /\ Len(prog[t]) = 2 /\ prog[t][1].op = "put" /\ prog[t][2].op = "take"

\* C8: neither call ever suspends, the thread can always take its next
\* step, the put returns (), the take returns the value put, and the cell
\* is Empty once both have returned.
C8_RoundTrip ==
    \A t \in Threads : RoundTrip(t) =>
        /\ waits[t] = {}
        /\ ~Suspended(t)
        /\ ~Finished(t) => ENABLED Step(t)
        /\ Len(ret[t]) >= 1 => (ret[t][1] = Unit /\ (value = None <=> Finished(t)))
        /\ Finished(t) => (ret[t][2] = prog[t][1].arg /\ value = None)

\* The round trip is over.
C8_Witness ==
    \E t \in Threads :
        /\ RoundTrip(t)
        /\ Finished(t)
        /\ ret[t] = <<Unit, prog[t][1].arg>>
        /\ prog[t][1].arg = MaxVal

\* ------------------------------------------------------------------ C9
TryOps == {"try_take", "try_put"}

\* Thread t, holding the guard in a call of one of `names`, takes its step.
Acts(t, names) == pc[t] = "held" /\ Cur(t).op \in names /\ pc'[t] # "held"

\* The step wakes nobody and sends no notification.
Silent(t) ==
    /\ notified' = notified
    /\ full' = full
    /\ empty' = empty
    /\ \A u \in Threads \ {t} : pc'[u] = pc[u]

\* C9: a thread in try_take or try_put is never suspended on a Condvar and
\* its step under the guard always returns; try_take on an Empty cell
\* returns None and leaves the cell Empty; try_put on a Full cell returns
\* false, leaves the held value as it is, and notifies and wakes nobody.
C9_TryOpsNeverBlock ==
    /\ [](\A t \in Threads :
            /\ \A i \in waits[t] : prog[t][i].op \notin TryOps
            /\ (~Finished(t) /\ Cur(t).op \in TryOps) =>
                    (pc[t] \in {"ready", "held"} /\ t \notin full \cup empty))
    /\ [][\A t \in Threads : Acts(t, TryOps) =>
            /\ pc'[t] = "ready" /\ ip'[t] = ip[t] + 1 /\ owner' = {}
            /\ (Cur(t).op = "try_take" /\ value = None) =>
                    /\ ret'[t] = Append(ret[t], None)
                    /\ value' = None
                    /\ Silent(t)
            /\ (Cur(t).op = "try_put" /\ value # None) =>
                    /\ ret'[t] = Append(ret[t], FALSE)
                    /\ value' = value
                    /\ Silent(t)]_vars

\* A try_put of another value has returned false on the cell as built,
\* beside a put suspended on `empty`.
C9_Witness ==
    \E t \in Threads : \E u \in Threads \ {t} :
        /\ Len(prog[t]) = 1 /\ prog[t][1].op = "try_put"
        /\ ret[t] = <<FALSE>>
        /\ start # None /\ value = start /\ value # Some(prog[t][1].arg)
        /\ SuspendedPut(u) /\ u \in empty

\* ----------------------------------------------------------------- C10
Observers == {"read", "try_read", "is_empty"}

\* Thread t alone, on a cell built Full, calls read() or try_read() and then
\* read() or take().
ReadThenUse(t) ==
    /\ start # None
    /\ Busy = {t}
    /\ Len(prog[t]) = 2
    /\ prog[t][1].op \in {"read", "try_read"}
    /\ prog[t][2].op \in {"read", "take"}

\* What read() and try_read() return on a cell holding o.
Duplicate(name, o) == IF name = "read" THEN Unwrap(o) ELSE o

\* C10: no step of read, try_read or is_empty changes the cell's content; on
\* a Full cell read returns the held value and try_read Some of it; and a
\* thread that alone reads a cell built Full holding v and then reads or
\* takes gets v both times without suspending, the cell still holding v
\* after the read.
C10_ReadIsNonConsuming ==
    /\ [][\A t \in Threads : Acts(t, Observers) =>
            /\ value' = value
            /\ (Cur(t).op = "read" /\ value # None) =>
                    ret'[t] = Append(ret[t], Unwrap(value))
            /\ Cur(t).op = "try_read" => ret'[t] = Append(ret[t], value)
            /\ Cur(t).op = "is_empty" => ret'[t] = Append(ret[t], value = None)]_vars
    /\ [](\A t \in Threads : ReadThenUse(t) =>
            /\ waits[t] = {}
            /\ Len(ret[t]) >= 1 => ret[t][1] = Duplicate(prog[t][1].op, start)
            /\ Len(ret[t]) = 1 => value = start
            /\ Len(ret[t]) = 2 =>
                    /\ ret[t][2] = Unwrap(start)
                    /\ value = (IF prog[t][2].op = "take" THEN None ELSE start))

\* read() and then take() have both returned the value the cell was built
\* with.
C10_Witness ==
    \E t \in Threads :
        /\ ReadThenUse(t)
        /\ prog[t][1].op = "read" /\ prog[t][2].op = "take"
        /\ Finished(t)
        /\ ret[t] = <<Unwrap(start), Unwrap(start)>>

\* ----------------------------------------------------------------- C11
Producers == {"put"}
Consumers == {"take", "read", "swap"}

\* C11: every thread suspended on `empty` is in put, and every thread
\* suspended on `full` is in take, read or swap; a suspended swap is
\* suspended on `full`.
C11_SignalsPartitionWaiters ==
    /\ \A t \in empty : Cur(t).op \in Producers
    /\ \A t \in full : Cur(t).op \in Consumers
    /\ \A t \in Threads : (Suspended(t) /\ Cur(t).op = "swap") => t \in full

\* ----------------------------------------------------------------- C12
\* C12: at most one thread holds the guard; a thread is in the code under
\* the guard exactly when it holds it; no thread suspended on a Condvar, or
\* woken and not yet running again, holds it; every suspended thread is on
\* exactly one Condvar; and a step that changes the payload is taken by the
\* thread that holds the guard before it.
C12_MonitorDiscipline ==
    /\ [](/\ Cardinality(owner) <= 1
          /\ \A t \in Threads :
                /\ t \in owner <=> pc[t] \in {"held", "swapping"}
                /\ Suspended(t) => t \notin owner
                /\ Suspended(t) <=> t \in full \cup empty
          /\ full \cap empty = {})
    /\ [][\A t \in Threads :
            /\ (value' # value) => (owner # {} /\ \A u \in owner : pc'[u] # pc[u])
            /\ (pc[t] = "held" /\ Suspended(t)') => (owner = {t} /\ owner' = {})
            /\ (pc[t] = "woken" /\ pc'[t] = "held") => (owner = {} /\ owner' = {t})]_vars

\* One thread is suspended on `full` and another on `empty` while a third
\* holds the guard.
C12_Witness ==
    /\ full # {}
    /\ empty # {}
    /\ \E t \in Threads : owner = {t} /\ pc[t] = "held" /\ 1 \in waits[t]

\* ----------------------------------------------------------------- C13
\* The calls of thread t that return in this step.
Returns(t) == ip'[t] # ip[t]

\* C13: a call returns Err only when the Mutex is poisoned; once poisoned
\* the Mutex stays poisoned; and from then on no step changes the payload
\* or notifies a Condvar, no thread gets to run under the guard, a suspended
\* thread stays suspended until it is woken (spuriously), and every call
\* that returns, whether it locked or re-acquired the mutex after a wait,
\* returns Err.
C13_PoisonIsStickyAndOnlyError ==
    /\ [](\A t \in Threads : errs[t] # {} => poisoned)
    /\ [][poisoned => poisoned']_vars
    /\ [][~poisoned => \A t \in Threads : errs'[t] = errs[t]]_vars
    /\ [][poisoned =>
            /\ value' = value
            /\ notified' = notified
            /\ \A t \in Threads :
                  /\ Returns(t) => (ip[t] \in errs'[t] /\ ret'[t] = Append(ret[t], Poisoned))
                  /\ pc'[t] \notin {"held", "swapping"}
                  /\ Suspended(t) => pc'[t] \in {"wait", "woken"}]_vars

\* The Mutex is poisoned; one call has returned Err straight from lock()
\* and another after it had suspended and re-acquired the mutex.
C13_Witness ==
    /\ poisoned
    /\ \E t \in Threads : \E u \in Threads \ {t} :
          /\ errs[t] # {} /\ errs[t] \cap waits[t] = {}
          /\ errs[u] \cap waits[u] # {}

\* ----------------------------------------------------------------- C14
\* Thread t alone, on a cell built Full, calls swap(v) and then try_read().
SwapThenRead(t) ==
    /\ start # None
    /\ Busy = {t}
    /\ Len(prog[t]) = 2 /\ prog[t][1].op = "swap" /\ prog[t][2].op = "try_read"

\* C14: a swap that finds the cell Full keeps the guard and does not
\* suspend; its store puts its argument in the cell and returns the value
\* found; neither step notifies or wakes anybody; and a thread that alone
\* swaps v into a cell built holding u gets u, and Some(v) from try_read.
C14_SwapOnFull ==
    /\ [][\A t \in Threads :
            /\ (Acts(t, {"swap"}) /\ value # None) =>
                  /\ Swapping(t)'
                  /\ old'[t] = value
                  /\ owner' = {t}
                  /\ waits'[t] = waits[t]
                  /\ Silent(t)
            /\ (Swapping(t) /\ ~Swapping(t)') =>
                  /\ value' = Some(Cur(t).arg)
                  /\ ret'[t] = Append(ret[t], Unwrap(old[t]))
                  /\ ip'[t] = ip[t] + 1
                  /\ Silent(t)]_vars
    /\ [](\A t \in Threads : SwapThenRead(t) =>
            /\ waits[t] = {}
            /\ Len(ret[t]) >= 1 => (ret[t][1] = Unwrap(start) /\ value = Some(prog[t][1].arg))
            /\ Len(ret[t]) = 2 => ret[t][2] = Some(prog[t][1].arg))

\* swap(v) has returned the u the cell was built with, v # u, and try_read
\* Some(v).
C14_Witness ==
    \E t \in Threads :
        /\ SwapThenRead(t)
        /\ Finished(t)
        /\ ret[t] = <<Unwrap(start), Some(prog[t][1].arg)>>
        /\ start # Some(prog[t][1].arg)

\* ----------------------------------------------------------------- C15
Fillers == {"put", "try_put"}
Drainers == {"take", "try_take"}

\* The step sends exactly one notify_one, to `full`, which wakes one of the
\* threads suspended there if there is any, and nobody on `empty`.
NotifiesFull ==
    /\ notified' = [notified EXCEPT !.full = @ + 1]
    /\ empty' = empty
    /\ full' \subseteq full
    /\ Cardinality(full \ full') = (IF full = {} THEN 0 ELSE 1)
    /\ \A w \in full \ full' : pc'[w] = "woken"

\* The same for `empty`.
NotifiesEmpty ==
    /\ notified' = [notified EXCEPT !.empty = @ + 1]
    /\ full' = full
    /\ empty' \subseteq empty
    /\ Cardinality(empty \ empty') = (IF empty = {} THEN 0 ELSE 1)
    /\ \A w \in empty \ empty' : pc'[w] = "woken"

\* C15: put and try_put store only into an Empty cell, and then send exactly
\* one notify_one to `full`; take and try_take extract only from a Full
\* cell, and then send exactly one notify_one to `empty`; a put on a Full
\* cell, a take on an Empty one, a failed try_put, a try_take on Empty,
\* is_empty, read, try_read and both steps of swap send no notification.
C15_SignalsOnTransitions ==
    [][\A t \in Threads :
        /\ Acts(t, Fillers) =>
              IF value = None
              THEN value' = Some(Cur(t).arg) /\ NotifiesFull /\ Returns(t)
              ELSE value' = value /\ notified' = notified
        /\ Acts(t, Drainers) =>
              IF value # None
              THEN value' = None /\ NotifiesEmpty /\ Returns(t)
              ELSE value' = value /\ notified' = notified
        /\ Acts(t, Observers \cup {"swap"}) => notified' = notified
        /\ Swapping(t) => notified' = notified]_vars

\* Two values have gone through the cell while a thread was suspended on
\* each Condvar at some time: each Condvar has been notified twice.
C15_Witness ==
    /\ notified = [full |-> 2, empty |-> 2]
    /\ value = None
    /\ \E t \in Threads : \E u \in Threads \ {t} : waits[t] # {} /\ waits[u] # {}

\* ----------------------------------------------------------------- C16
\* On a cell built Empty thread p calls put(v1) and thread s swap(v2), and
\* no other call is made.
SwapAndPut(p, s) ==
    /\ start = None
    /\ Busy = {p, s}
    /\ Len(prog[p]) = 1 /\ prog[p][1].op = "put"
    /\ Len(prog[s]) = 1 /\ prog[s][1].op = "swap"

SwapReleased(p, s) ==
    /\ SwapAndPut(p, s)
    /\ Finished(s)
    /\ ret[s] = <<prog[p][1].arg>>
    /\ value = Some(prog[s][1].arg)

\* C16: with thread 2 the producer and thread 3 the swapper (as Concurrent
\* starts them), under fair scheduling the swap eventually returns the value
\* put and the cell ends Full holding the swap's argument.
C16_PutReleasesSwap == SwapAndPut(2, 3) => <>[]SwapReleased(2, 3)

\* ----------------------------------------------------------------- C17
\* C17: when every thread has returned or is suspended, no thread is
\* suspended in take, read or swap on a Full cell, and none in put on an
\* Empty one.
C17_NoLostWakeup ==
    Quiescent =>
        \A t \in Threads : Suspended(t) =>
            /\ Cur(t).op \in Consumers => value = None
            /\ Cur(t).op \in Producers => value # None

\* ----------------------------------------------------------------- C18
RECURSIVE Sum(_, _)
\* The sum of f over the finite set S.
Sum(f, S) == IF S = {} THEN 0 ELSE LET x == CHOOSE x \in S : TRUE IN f[x] + Sum(f, S \ {x})

\* The calls that have returned, as <<thread, index>>.
Completed == {c \in Threads \X {1, 2} : c[2] <= Len(ret[c[1]])}
CallOf(c) == prog[c[1]][c[2]]
ResultOf(c) == ret[c[1]][c[2]]

\* Whether completed call c put value v into the cell.
Entered(c, v) ==
    /\ CallOf(c).arg = v
    /\ \/ CallOf(c).op \in {"put", "swap"}
       \/ CallOf(c).op = "try_put" /\ ResultOf(c) = TRUE

\* Whether completed call c handed value v over to its caller.
Left(c, v) ==
    \/ CallOf(c).op \in {"take", "swap"} /\ ResultOf(c) = v
    \/ CallOf(c).op = "try_take" /\ ResultOf(c) = Some(v)

Count(b) == IF b THEN 1 ELSE 0

\* How many times v has gone into the cell: by the constructor and by calls.
In(v) == Count(start = Some(v)) + Sum([c \in Completed |-> Count(Entered(c, v))], Completed)

\* How many times v has come out, is in the cell, or is in the hands of a
\* swap that is about to return it.
Out(v) ==
    Count(value = Some(v))
    + Sum([c \in Completed |-> Count(Left(c, v))], Completed)
    + Sum([t \in Threads |-> Count(Swapping(t) /\ old[t] = Some(v))], Threads)

\* C18: every value has come out of the cell, or is in it, as many times as
\* it went in; and read and try_read return the value held when they run.
C18_ValueConservation ==
    /\ [](\A v \in Values : In(v) = Out(v))
    /\ [][\A t \in Threads :
            /\ (Acts(t, {"read"}) /\ Returns(t)) => ret'[t] = Append(ret[t], Unwrap(value))
            /\ Acts(t, {"try_read"}) => ret'[t] = Append(ret[t], value)]_vars

\* Value 1 has gone in three times, by the constructor, a put and a swap,
\* and come out twice, by a take and the swap; every call has returned.
C18_Witness ==
    /\ AllFinished
    /\ In(1) = 3
    /\ value = Some(1)
    /\ \E c \in Completed : CallOf(c).op = "take"
    /\ \E c \in Completed : CallOf(c).op = "swap"

\* ----------------------------------------------------------------- C19
\* Threads r1 and r2 call read once each and thread p calls put once, on a
\* cell that starts Empty.
ReadersAndPut(r1, r2, p) ==
    /\ start = None
    /\ prog[r1] = <<Call("read", 0)>>
    /\ prog[r2] = <<Call("read", 0)>>
    /\ Len(prog[p]) = 1
    /\ prog[p][1].op = "put"

\* Both readers are suspended in read on the Empty cell before the put.
ReadersSuspended(r1, r2, p) ==
    /\ ReadersAndPut(r1, r2, p)
    /\ Suspended(r1)
    /\ Suspended(r2)
    /\ value = None
    /\ ip[p] = 1

\* Both reads have returned the value put.
ReadersReleased(r1, r2, p) ==
    /\ ReadersAndPut(r1, r2, p)
    /\ ret[r1] = <<prog[p][1].arg>>
    /\ ret[r2] = <<prog[p][1].arg>>

\* C19: when two threads are suspended in read on an Empty cell and a single
\* put(v) follows, both reads eventually return v.
C19_PutReleasesAllReaders == ReadersSuspended(1, 2, 3) ~> ReadersReleased(1, 2, 3)

\* ----------------------------------------------------------------- C20
\* The calls of the programs, as <<thread, index>>.
Calls == {c \in Threads \X {1, 2} : c[2] <= Len(prog[c[1]])}

\* Only put and take are called, as many puts as takes, on a cell built Empty.
Balanced ==
    /\ start = None
    /\ Calls # {}
    /\ \A c \in Calls : CallOf(c).op \in {"put", "take"}
    /\ Cardinality({c \in Calls : CallOf(c).op = "put"})
         = Cardinality({c \in Calls : CallOf(c).op = "take"})

\* C20, as stated: when the threads call only put and take on a cell built Empty, with
\* as many puts as takes, no state is reached where nothing can run and a
\* call has not returned, and eventually every call has returned and the cell
\* is Empty.
C20_BalancedTerminates ==
    /\ [](Balanced /\ Quiescent => AllFinished)
    /\ Balanced => <>[](AllFinished /\ value = None)

\* Every thread is a producer or a consumer: its calls are all put or all take.
Pure == \A t \in Threads : \A i, j \in DOMAIN prog[t] : prog[t][i].op = prog[t][j].op

\* C20, amended: when, besides, every thread calls only put or only take, no
\* state is reached where nothing can run and a call has not returned, and
\* eventually every call has returned and the cell is Empty.
C20_PureBalancedTerminates ==
    /\ [](Balanced /\ Pure /\ Quiescent => AllFinished)
    /\ Balanced /\ Pure => <>[](AllFinished /\ value = None)

\* Two puts by one thread and one take by each of two others have all
\* returned, after a put and a take both had to suspend.
C20_Witness ==
    /\ Balanced
    /\ Pure
    /\ Cardinality(Calls) = 4
    /\ AllFinished
    /\ value = None
    /\ \E t \in Threads : waits[t] # {} /\ prog[t][1].op = "put"
    /\ \E t \in Threads : waits[t] # {} /\ prog[t][1].op = "take"

====
